---- MODULE Spec2Model ----
(* Model of Display.DisplayEvents (internal/terminalui/dynamicui/display.go):  *)
(* the single consumer loop over bus.EventChan(), the frame it appends to, the *)
(* WaitGroup shared with the event handler's sub-tasks, and the deferred       *)
(* cleanup that decides the process exit code.                                 *)
(* Events carry payloads of the type their kind requires (an ErrorEvent for    *)
(* NewErrorDetected, a Presenter for the two finished kinds).                  *)
EXTENDS Integers, Sequences, FiniteSets, TLC

(* Bound on the number of events the channel delivers. *)
MaxEvents == 3

(* cberr.NewError(cberr.DisplayErr, ...).ExitCode(): fixed, non-zero, distinct *)
(* from the codes error events carry.                                          *)
DisplayErrExitCode == 1

(* Exit codes an ErrorEvent may carry. *)
ExitCodes == {0, 2, 74}

(* Footer texts a presenter may supply. *)
Footers == {"", "footer"}

DirectKinds == {"NewVersionAvailable"}
SyncLineKinds == {"NewMessageDetected", "ValidateFinishedSuccessfully"}
ErrorKinds == {"NewErrorDetected"}
DelegatedKinds == {"PullDockerImage", "CopyImage", "ReadImage", "FetchImage",
                   "CatalogerStarted", "ScanStarted"}
FinishedKinds == {"ScanFinished", "ValidateFinishedWithViolations"}
IgnoredKinds == {"CatalogerFinished", "ReadLayer", "Unrecognized"}
SyncKinds == SyncLineKinds \cup FinishedKinds

Events ==
    [kind : DirectKinds \cup SyncLineKinds \cup DelegatedKinds \cup IgnoredKinds,
     isEnd : BOOLEAN, exitCode : {0}, footer : {""}]
    \cup [kind : ErrorKinds, isEnd : BOOLEAN, exitCode : ExitCodes, footer : {""}]
    \cup [kind : FinishedKinds, isEnd : BOOLEAN, exitCode : {0}, footer : Footers]

(* Value of the loop variable e outside an iteration. *)
NoEvent == [kind |-> "none", isEnd |-> FALSE, exitCode |-> 0, footer |-> ""]

VARIABLES
    pc,            \* position of the DisplayEvents goroutine
    cur,           \* loop variable e (kept after a break, NoEvent otherwise)
    displayErr,    \* "nil" or the kind of error last assigned
    exitCode,      \* local exitCode
    lines,         \* frame: sequence of [ev, owner, st]
    wg,            \* sync.WaitGroup counter
    cursorHidden,  \* cursor visibility as set by HideCursor / ShowCursor
    diag,          \* diagnostic line written to os.Stderr
    nDequeued,     \* history: events received from the channel
    hideCalls,     \* history: calls of fr.HideCursor
    showCalls,     \* history: calls of fr.ShowCursor
    cleanups,      \* history: runs of the deferred function
    iterErr,       \* history: a render of the current iteration returned an error
    errEvents,     \* history: NewErrorDetected events handled
    ignored,       \* history: indices of the events skipped by continue
    presentErr,    \* history: a pres.Present call returned an error
    ops,           \* history: calls made so far in the current iteration
    handled,       \* history: indices of the events dispatched by the switch
    handed,        \* history: indices of the lines passed to a handler
    loopWrites,    \* history: indices of the lines the loop rendered into
    lastErr,       \* history: exit code of the last error event handled, -1 if none
    termSent       \* history: the channel has delivered an event with IsEnd()

vars == <<pc, cur, displayErr, exitCode, lines, wg, cursorHidden, diag,
          nDequeued, hideCalls, showCalls, cleanups, iterErr, errEvents, ignored,
          presentErr, ops, handled, handed, loopWrites, lastErr, termSent>>

trace == <<ops, handled, handed, loopWrites, lastErr, termSent>>

hist == <<nDequeued, hideCalls, showCalls, cleanups, errEvents, ignored, presentErr>>

PostLoop == {"cleanup", "showcursor", "report", "exit", "exited", "returned"}
Final == {"exited", "returned"}

(* fr.Append(): a new empty line owned by the loop. *)
BlankLine(ev) == [ev |-> ev, owner |-> "loop", st |-> "blank"]

(* fr.Append().Render(msg): the new line after the write succeeded or failed. *)
RenderedLine(ev, ok) == [ev |-> ev, owner |-> "loop", st |-> IF ok THEN "ok" ELSE "failed"]

(* error returned by Line.Render *)
RenderResult(ok) == IF ok THEN "nil" ELSE "render"

Init ==
    /\ pc = "start"
    /\ cur = NoEvent
    /\ displayErr = "nil"
    /\ exitCode = 0
    /\ lines = <<>>
    /\ wg = 0
    /\ cursorHidden = FALSE
    /\ diag = FALSE
    /\ nDequeued = 0
    /\ hideCalls = 0
    /\ showCalls = 0
    /\ cleanups = 0
    /\ iterErr = FALSE
    /\ errEvents = 0
    /\ ignored = {}
    /\ presentErr = FALSE
    /\ ops = <<>>
    /\ handled = <<>>
    /\ handed = <<>>
    /\ loopWrites = {}
    /\ lastErr = -1
    /\ termSent = FALSE

(* fr := frame.NewFrame(os.Stderr); _ = fr.HideCursor() *)
Start ==
    /\ pc = "start"
    /\ pc' = "recv"
    /\ cursorHidden' = TRUE
    /\ hideCalls' = hideCalls + 1
    /\ UNCHANGED <<cur, displayErr, exitCode, lines, wg, diag, nDequeued,
                   showCalls, cleanups, iterErr, errEvents, ignored, presentErr>>
    /\ UNCHANGED trace

(* for e := range bus.EventChan(): an event is received *)
Recv ==
    /\ pc = "recv"
    /\ nDequeued < MaxEvents
    /\ \E e \in Events : cur' = e
    /\ nDequeued' = nDequeued + 1
    /\ iterErr' = FALSE
    /\ pc' = "switch"
    /\ UNCHANGED <<displayErr, exitCode, lines, wg, cursorHidden, diag,
                   hideCalls, showCalls, cleanups, errEvents, ignored, presentErr>>
    /\ termSent' = (termSent \/ cur'.isEnd)
    /\ ops' = <<>>
    /\ UNCHANGED <<handled, handed, loopWrites, lastErr>>

(* for e := range bus.EventChan(): the channel is closed and empty *)
ChanClosed ==
    /\ pc = "recv"
    /\ pc' = "cleanup"
    /\ UNCHANGED <<cur, displayErr, exitCode, lines, wg, cursorHidden, diag,
                   nDequeued, hideCalls, showCalls, cleanups, iterErr, errEvents, ignored, presentErr>>
    /\ UNCHANGED trace

(* Variant of HandleVersion that continues the loop without the end check. *)
HandleVersion_SkipsCheck ==
    /\ pc = "switch"
    /\ cur.kind \in DirectKinds
    /\ \E ok \in BOOLEAN :
          /\ lines' = Append(lines, RenderedLine(nDequeued, ok))
          /\ displayErr' = RenderResult(ok)
          /\ iterErr' = (iterErr \/ ~ok)
    /\ pc' = "recv"
    /\ UNCHANGED <<cur, exitCode, wg, cursorHidden, diag, hist>>
    /\ ops' = Append(ops, "render")
    /\ handled' = Append(handled, nDequeued)
    /\ loopWrites' = loopWrites \cup {Len(lines) + 1}
    /\ UNCHANGED <<handed, lastErr, termSent>>

(* case bus.NewVersionAvailable *)
HandleVersion ==
    /\ pc = "switch"
    /\ cur.kind \in DirectKinds
    /\ \E ok \in BOOLEAN :
          /\ lines' = Append(lines, RenderedLine(nDequeued, ok))
          /\ displayErr' = RenderResult(ok)
          /\ iterErr' = (iterErr \/ ~ok)
    /\ pc' = "check"
    /\ UNCHANGED <<cur, exitCode, wg, cursorHidden, diag, hist>>
    /\ ops' = Append(ops, "render")
    /\ handled' = Append(handled, nDequeued)
    /\ loopWrites' = loopWrites \cup {Len(lines) + 1}
    /\ UNCHANGED <<handed, lastErr, termSent>>

(* Variant of WgWait that returns although sub-tasks are outstanding. *)
WgWait_NoBlock ==
    /\ pc = "switch"
    /\ cur.kind \in SyncKinds
    /\ pc' = "synced"
    /\ UNCHANGED <<cur, displayErr, exitCode, lines, wg, cursorHidden, diag, iterErr, hist>>
    /\ ops' = Append(ops, "wait")
    /\ handled' = Append(handled, nDequeued)
    /\ UNCHANGED <<handed, loopWrites, lastErr, termSent>>

(* Variant of WgWait on a barrier that a registered sub-task never releases. *)
WgWait_WrongBarrier ==
    /\ pc = "switch"
    /\ cur.kind \in SyncKinds
    /\ wg = 0
    /\ handed = <<>>
    /\ pc' = "synced"
    /\ UNCHANGED <<cur, displayErr, exitCode, lines, wg, cursorHidden, diag, iterErr, hist>>
    /\ ops' = Append(ops, "wait")
    /\ handled' = Append(handled, nDequeued)
    /\ UNCHANGED <<handed, loopWrites, lastErr, termSent>>

(* wg.Wait() of the four synchronized kinds: returns when the counter is zero *)
WgWait ==
    /\ pc = "switch"
    /\ cur.kind \in SyncKinds
    /\ wg = 0
    /\ pc' = "synced"
    /\ UNCHANGED <<cur, displayErr, exitCode, lines, wg, cursorHidden, diag, iterErr, hist>>
    /\ ops' = Append(ops, "wait")
    /\ handled' = Append(handled, nDequeued)
    /\ UNCHANGED <<handed, loopWrites, lastErr, termSent>>

(* Variant of HandleMessage that puts the new line in front of the frame. *)
HandleMessage_Prepends ==
    /\ pc = "synced"
    /\ cur.kind \in SyncLineKinds
    /\ \E ok \in BOOLEAN :
          /\ lines' = <<RenderedLine(nDequeued, ok)>> \o lines
          /\ displayErr' = RenderResult(ok)
          /\ iterErr' = (iterErr \/ ~ok)
    /\ pc' = "check"
    /\ UNCHANGED <<cur, exitCode, wg, cursorHidden, diag, hist>>
    /\ ops' = Append(ops, "render")
    /\ loopWrites' = loopWrites \cup {1}
    /\ UNCHANGED <<handled, handed, lastErr, termSent>>

(* case bus.NewMessageDetected, bus.ValidateFinishedSuccessfully: after the wait *)
HandleMessage ==
    /\ pc = "synced"
    /\ cur.kind \in SyncLineKinds
    /\ \E ok \in BOOLEAN :
          /\ lines' = Append(lines, RenderedLine(nDequeued, ok))
          /\ displayErr' = RenderResult(ok)
          /\ iterErr' = (iterErr \/ ~ok)
    /\ pc' = "check"
    /\ UNCHANGED <<cur, exitCode, wg, cursorHidden, diag, hist>>
    /\ ops' = Append(ops, "render")
    /\ loopWrites' = loopWrites \cup {Len(lines) + 1}
    /\ UNCHANGED <<handled, handed, lastErr, termSent>>

(* Variant of HandleError that does not record the event's exit code. *)
HandleError_NoExitCode ==
    /\ pc = "switch"
    /\ cur.kind \in ErrorKinds
    /\ \E ok \in BOOLEAN :
          /\ lines' = Append(lines, RenderedLine(nDequeued, ok))
          /\ displayErr' = RenderResult(ok)
          /\ iterErr' = (iterErr \/ ~ok)
    /\ errEvents' = errEvents + 1
    /\ pc' = "check"
    /\ UNCHANGED <<cur, exitCode, wg, cursorHidden, diag, nDequeued, hideCalls, showCalls,
                   cleanups, ignored, presentErr>>
    /\ ops' = Append(ops, "render")
    /\ handled' = Append(handled, nDequeued)
    /\ loopWrites' = loopWrites \cup {Len(lines) + 1}
    /\ lastErr' = cur.exitCode
    /\ UNCHANGED <<handed, termSent>>

(* Variant of HandleError that waits on the WaitGroup before rendering. *)
HandleError_Waits ==
    /\ pc = "switch"
    /\ cur.kind \in ErrorKinds
    /\ wg = 0
    /\ \E ok \in BOOLEAN :
          /\ lines' = Append(lines, RenderedLine(nDequeued, ok))
          /\ displayErr' = RenderResult(ok)
          /\ iterErr' = (iterErr \/ ~ok)
    /\ exitCode' = cur.exitCode
    /\ errEvents' = errEvents + 1
    /\ pc' = "check"
    /\ UNCHANGED <<cur, wg, cursorHidden, diag, nDequeued, hideCalls, showCalls,
                   cleanups, ignored, presentErr>>
    /\ ops' = Append(ops, "render")
    /\ handled' = Append(handled, nDequeued)
    /\ loopWrites' = loopWrites \cup {Len(lines) + 1}
    /\ lastErr' = cur.exitCode
    /\ UNCHANGED <<handed, termSent>>

(* Variant of HandleError that does not overwrite a recorded exit code with 0. *)
HandleError_KeepsNonZero ==
    /\ pc = "switch"
    /\ cur.kind \in ErrorKinds
    /\ \E ok \in BOOLEAN :
          /\ lines' = Append(lines, RenderedLine(nDequeued, ok))
          /\ displayErr' = RenderResult(ok)
          /\ iterErr' = (iterErr \/ ~ok)
    /\ exitCode' = IF cur.exitCode > 0 THEN cur.exitCode ELSE exitCode
    /\ errEvents' = errEvents + 1
    /\ pc' = "check"
    /\ UNCHANGED <<cur, wg, cursorHidden, diag, nDequeued, hideCalls, showCalls,
                   cleanups, ignored, presentErr>>
    /\ ops' = Append(ops, "render")
    /\ handled' = Append(handled, nDequeued)
    /\ loopWrites' = loopWrites \cup {Len(lines) + 1}
    /\ lastErr' = cur.exitCode
    /\ UNCHANGED <<handed, termSent>>

(* case bus.NewErrorDetected *)
HandleError ==
    /\ pc = "switch"
    /\ cur.kind \in ErrorKinds
    /\ \E ok \in BOOLEAN :
          /\ lines' = Append(lines, RenderedLine(nDequeued, ok))
          /\ displayErr' = RenderResult(ok)
          /\ iterErr' = (iterErr \/ ~ok)
    /\ exitCode' = cur.exitCode
    /\ errEvents' = errEvents + 1
    /\ pc' = "check"
    /\ UNCHANGED <<cur, wg, cursorHidden, diag, nDequeued, hideCalls, showCalls,
                   cleanups, ignored, presentErr>>
    /\ ops' = Append(ops, "render")
    /\ handled' = Append(handled, nDequeued)
    /\ loopWrites' = loopWrites \cup {Len(lines) + 1}
    /\ lastErr' = cur.exitCode
    /\ UNCHANGED <<handed, termSent>>

(* Outcomes of a handler.XxxHandler(line, value) call: the sub-task is         *)
(* registered on the WaitGroup and runs on the line, or the call fails, with   *)
(* or without a sub-task left registered.                                      *)
HandlerOutcomes ==
    { [err |-> "nil", registered |-> TRUE],
      [err |-> "handler", registered |-> FALSE],
      [err |-> "handler", registered |-> TRUE] }

(* Variant of HandleDelegated that hands the last existing line to the handler. *)
HandleDelegated_ReusesLine ==
    /\ pc = "switch"
    /\ cur.kind \in DelegatedKinds
    /\ \E o \in HandlerOutcomes :
          /\ lines' = IF Len(lines) = 0
                         THEN <<[ev |-> nDequeued, owner |-> "task",
                                 st |-> IF o.registered THEN "running" ELSE "failed"]>>
                         ELSE [lines EXCEPT ![Len(lines)] =
                                 [ev |-> nDequeued, owner |-> "task",
                                  st |-> IF o.registered THEN "running" ELSE "failed"]]
          /\ wg' = IF o.registered THEN wg + 1 ELSE wg
          /\ displayErr' = o.err
          /\ iterErr' = (iterErr \/ o.err # "nil")
    /\ pc' = "check"
    /\ UNCHANGED <<cur, exitCode, cursorHidden, diag, hist>>
    /\ ops' = Append(ops, "handler")
    /\ handled' = Append(handled, nDequeued)
    /\ handed' = Append(handed, IF Len(lines) = 0 THEN 1 ELSE Len(lines))
    /\ UNCHANGED <<loopWrites, lastErr, termSent>>

(* cases bus.PullDockerImage .. bus.ScanStarted *)
HandleDelegated ==
    /\ pc = "switch"
    /\ cur.kind \in DelegatedKinds
    /\ \E o \in HandlerOutcomes :
          /\ lines' = Append(lines, [ev |-> nDequeued, owner |-> "task",
                                     st |-> IF o.registered THEN "running" ELSE "failed"])
          /\ wg' = IF o.registered THEN wg + 1 ELSE wg
          /\ displayErr' = o.err
          /\ iterErr' = (iterErr \/ o.err # "nil")
    /\ pc' = "check"
    /\ UNCHANGED <<cur, exitCode, cursorHidden, diag, hist>>
    /\ ops' = Append(ops, "handler")
    /\ handled' = Append(handled, nDequeued)
    /\ handed' = Append(handed, Len(lines) + 1)
    /\ UNCHANGED <<loopWrites, lastErr, termSent>>

(* A sub-task reaches its termination condition and calls wg.Done() *)
TaskDone ==
    /\ pc # "exited"
    /\ \E i \in 1..Len(lines) :
          /\ lines[i].st = "running"
          /\ lines' = [lines EXCEPT ![i].st = "settled"]
    /\ wg' = wg - 1
    /\ UNCHANGED <<pc, cur, displayErr, exitCode, cursorHidden, diag, iterErr, hist>>
    /\ UNCHANGED trace

(* case bus.ScanFinished, bus.ValidateFinishedWithViolations: the title block *)
HandleTitle ==
    /\ pc = "synced"
    /\ cur.kind \in FinishedKinds
    /\ \E ok \in BOOLEAN :
          /\ lines' = lines \o <<BlankLine(nDequeued), RenderedLine(nDequeued, ok),
                                 BlankLine(nDequeued)>>
          /\ displayErr' = RenderResult(ok)
          /\ iterErr' = (iterErr \/ ~ok)
    /\ pc' = "present"
    /\ UNCHANGED <<cur, exitCode, wg, cursorHidden, diag, hist>>
    /\ ops' = Append(ops, "title")
    /\ loopWrites' = loopWrites \cup {Len(lines) + 2}
    /\ UNCHANGED <<handled, handed, lastErr, termSent>>

(* if err := pres.Present(os.Stdout); err != nil { displayErr = fmt.Errorf(...) } *)
Present ==
    /\ pc = "present"
    /\ \E ok \in BOOLEAN :
          /\ displayErr' = IF ok THEN displayErr ELSE "present"
          /\ iterErr' = (iterErr \/ ~ok)
          /\ presentErr' = (presentErr \/ ~ok)
    /\ pc' = "footer"
    /\ UNCHANGED <<cur, exitCode, lines, wg, cursorHidden, diag, nDequeued, hideCalls,
                   showCalls, cleanups, errEvents, ignored>>
    /\ ops' = Append(ops, "present")
    /\ UNCHANGED <<handled, handed, loopWrites, lastErr, termSent>>

(* Variant of Footer that renders the footer line whatever the footer text. *)
Footer_Always ==
    /\ pc = "footer"
    /\ IF TRUE
          THEN \E ok \in BOOLEAN :
                  /\ lines' = Append(lines, RenderedLine(nDequeued, ok))
                  /\ displayErr' = RenderResult(ok)
                  /\ iterErr' = (iterErr \/ ~ok)
          ELSE UNCHANGED <<lines, displayErr, iterErr>>
    /\ pc' = "check"
    /\ UNCHANGED <<cur, exitCode, wg, cursorHidden, diag, hist>>
    /\ IF TRUE
          THEN /\ ops' = Append(ops, "footer")
               /\ loopWrites' = loopWrites \cup {Len(lines) + 1}
          ELSE UNCHANGED <<ops, loopWrites>>
    /\ UNCHANGED <<handled, handed, lastErr, termSent>>

(* if pres.Footer() != "" { displayErr = fr.Append().Render(...) } *)
Footer ==
    /\ pc = "footer"
    /\ IF cur.footer # ""
          THEN \E ok \in BOOLEAN :
                  /\ lines' = Append(lines, RenderedLine(nDequeued, ok))
                  /\ displayErr' = RenderResult(ok)
                  /\ iterErr' = (iterErr \/ ~ok)
          ELSE UNCHANGED <<lines, displayErr, iterErr>>
    /\ pc' = "check"
    /\ UNCHANGED <<cur, exitCode, wg, cursorHidden, diag, hist>>
    /\ IF cur.footer # ""
          THEN /\ ops' = Append(ops, "footer")
               /\ loopWrites' = loopWrites \cup {Len(lines) + 1}
          ELSE UNCHANGED <<ops, loopWrites>>
    /\ UNCHANGED <<handled, handed, lastErr, termSent>>

(* Variant of Continue that appends a line for the skipped event. *)
Continue_Appends ==
    /\ pc = "switch"
    /\ cur.kind \in IgnoredKinds
    /\ ignored' = ignored \cup {nDequeued}
    /\ lines' = Append(lines, BlankLine(nDequeued))
    /\ cur' = NoEvent
    /\ pc' = "recv"
    /\ UNCHANGED <<displayErr, exitCode, wg, cursorHidden, diag, nDequeued,
                   hideCalls, showCalls, cleanups, iterErr, errEvents, presentErr>>
    /\ handled' = Append(handled, nDequeued)
    /\ ops' = <<>>
    /\ UNCHANGED <<handed, loopWrites, lastErr, termSent>>

(* case bus.CatalogerFinished, bus.ReadLayer: fallthrough; default: continue *)
Continue ==
    /\ pc = "switch"
    /\ cur.kind \in IgnoredKinds
    /\ ignored' = ignored \cup {nDequeued}
    /\ cur' = NoEvent
    /\ pc' = "recv"
    /\ UNCHANGED <<displayErr, exitCode, lines, wg, cursorHidden, diag, nDequeued,
                   hideCalls, showCalls, cleanups, iterErr, errEvents, presentErr>>
    /\ handled' = Append(handled, nDequeued)
    /\ ops' = <<>>
    /\ UNCHANGED <<handed, loopWrites, lastErr, termSent>>

(* Variant of CheckEnd that breaks on a display error only. *)
CheckEnd_IgnoresIsEnd ==
    /\ pc = "check"
    /\ IF displayErr # "nil"
          THEN pc' = "cleanup" /\ cur' = cur /\ iterErr' = iterErr
          ELSE pc' = "recv" /\ cur' = NoEvent /\ iterErr' = FALSE
    /\ UNCHANGED <<displayErr, exitCode, lines, wg, cursorHidden, diag, hist>>
    /\ ops' = IF displayErr # "nil" THEN ops ELSE <<>>
    /\ UNCHANGED <<handled, handed, loopWrites, lastErr, termSent>>

(* Variant of CheckEnd that breaks on the terminal flag only. *)
CheckEnd_IgnoresDisplayErr ==
    /\ pc = "check"
    /\ IF cur.isEnd
          THEN pc' = "cleanup" /\ cur' = cur /\ iterErr' = iterErr
          ELSE pc' = "recv" /\ cur' = NoEvent /\ iterErr' = FALSE
    /\ UNCHANGED <<displayErr, exitCode, lines, wg, cursorHidden, diag, hist>>
    /\ ops' = IF cur.isEnd THEN ops ELSE <<>>
    /\ UNCHANGED <<handled, handed, loopWrites, lastErr, termSent>>

(* if e.IsEnd() || displayErr != nil { break eventLoop } *)
CheckEnd ==
    /\ pc = "check"
    /\ IF cur.isEnd \/ displayErr # "nil"
          THEN pc' = "cleanup" /\ cur' = cur /\ iterErr' = iterErr
          ELSE pc' = "recv" /\ cur' = NoEvent /\ iterErr' = FALSE
    /\ UNCHANGED <<displayErr, exitCode, lines, wg, cursorHidden, diag, hist>>
    /\ ops' = IF cur.isEnd \/ displayErr # "nil" THEN ops ELSE <<>>
    /\ UNCHANGED <<handled, handed, loopWrites, lastErr, termSent>>

(* Variant of CleanupAppend without the final fr.Append(). *)
CleanupAppend_NoLine ==
    /\ pc = "cleanup"
    /\ cleanups' = cleanups + 1
    /\ pc' = "showcursor"
    /\ UNCHANGED <<cur, displayErr, exitCode, lines, wg, cursorHidden, diag, nDequeued,
                   hideCalls, showCalls, iterErr, errEvents, ignored, presentErr>>
    /\ UNCHANGED trace

(* deferred function: fr.Append() *)
CleanupAppend ==
    /\ pc = "cleanup"
    /\ lines' = Append(lines, BlankLine(0))
    /\ cleanups' = cleanups + 1
    /\ pc' = "showcursor"
    /\ UNCHANGED <<cur, displayErr, exitCode, wg, cursorHidden, diag, nDequeued,
                   hideCalls, showCalls, iterErr, errEvents, ignored, presentErr>>
    /\ UNCHANGED trace

(* Variant of ShowCursor that leaves the cursor hidden. *)
ShowCursor_Missing ==
    /\ pc = "showcursor"
    /\ pc' = "report"
    /\ UNCHANGED <<cur, displayErr, exitCode, lines, wg, cursorHidden, diag, nDequeued,
                   hideCalls, showCalls, cleanups, iterErr, errEvents, ignored, presentErr>>
    /\ UNCHANGED trace

(* deferred function: _ = fr.ShowCursor() *)
ShowCursor ==
    /\ pc = "showcursor"
    /\ cursorHidden' = FALSE
    /\ showCalls' = showCalls + 1
    /\ pc' = "report"
    /\ UNCHANGED <<cur, displayErr, exitCode, lines, wg, diag, nDequeued,
                   hideCalls, cleanups, iterErr, errEvents, ignored, presentErr>>
    /\ UNCHANGED trace

(* Variant of Report that keeps a non-zero exit code already recorded. *)
Report_KeepsExitCode ==
    /\ pc = "report"
    /\ IF displayErr # "nil"
          THEN /\ diag' = TRUE
               /\ exitCode' = IF exitCode > 0 THEN exitCode ELSE DisplayErrExitCode
          ELSE UNCHANGED <<diag, exitCode>>
    /\ pc' = "exit"
    /\ UNCHANGED <<cur, displayErr, lines, wg, cursorHidden, iterErr, hist>>
    /\ UNCHANGED trace

(* deferred function: if displayErr != nil { ... exitCode = e.ExitCode() ... } *)
Report ==
    /\ pc = "report"
    /\ IF displayErr # "nil"
          THEN diag' = TRUE /\ exitCode' = DisplayErrExitCode
          ELSE UNCHANGED <<diag, exitCode>>
    /\ pc' = "exit"
    /\ UNCHANGED <<cur, displayErr, lines, wg, cursorHidden, iterErr, hist>>
    /\ UNCHANGED trace

(* Variant of Exit that terminates the process whatever the exit code. *)
Exit_Unconditional ==
    /\ pc = "exit"
    /\ pc' = "exited"
    /\ UNCHANGED <<cur, displayErr, exitCode, lines, wg, cursorHidden, diag, iterErr, hist>>
    /\ UNCHANGED trace

(* deferred function: if exitCode > 0 { os.Exit(exitCode) }; otherwise return *)
Exit ==
    /\ pc = "exit"
    /\ pc' = IF exitCode > 0 THEN "exited" ELSE "returned"
    /\ UNCHANGED <<cur, displayErr, exitCode, lines, wg, cursorHidden, diag, iterErr, hist>>
    /\ UNCHANGED trace

Next ==
    \/ Start
    \/ Recv
    \/ ChanClosed
    \/ HandleVersion
    \/ WgWait
    \/ HandleMessage
    \/ HandleError
    \/ HandleDelegated
    \/ TaskDone
    \/ HandleTitle
    \/ Present
    \/ Footer
    \/ Continue
    \/ CheckEnd
    \/ CleanupAppend
    \/ ShowCursor
    \/ Report
    \/ Exit

Spec == Init /\ [][Next]_vars

(* Steps of the DisplayEvents goroutine that do not wait for the channel. *)
LoopStep ==
    \/ Start
    \/ HandleVersion
    \/ WgWait
    \/ HandleMessage
    \/ HandleError
    \/ HandleDelegated
    \/ HandleTitle
    \/ Present
    \/ Footer
    \/ Continue
    \/ CheckEnd
    \/ CleanupAppend
    \/ ShowCursor
    \/ Report
    \/ Exit

(* The producers' obligation: until an event with IsEnd() has been delivered *)
(* the channel delivers another event or is closed.                          *)
StreamStep == (Recv \/ ChanClosed) /\ ~termSent

(* The goroutine of DisplayEvents and the sub-task goroutines are scheduled  *)
(* fairly, and every registered sub-task eventually calls Done.              *)
FairSpec ==
    /\ Spec
    /\ WF_vars(LoopStep)
    /\ WF_vars(TaskDone)
    /\ WF_vars(StreamStep)

(* Exit code of the process once DisplayEvents has finished: the argument of   *)
(* os.Exit, or 0 when DisplayEvents returns to its caller.                     *)
FinalExitCode == IF pc = "exited" THEN exitCode ELSE 0


(* ------------------------------------------------------------------------ *)
(* C1: when the loop is about to render for a synchronized event (its line,  *)
(* its title, the presenter output or its footer), every sub-task            *)
(* registered by an earlier event has called Done: the WaitGroup counter is  *)
(* zero and no sub-task is running.                                          *)
C1_SyncRenderAfterBarrier ==
    pc \in {"synced", "present", "footer"} =>
        /\ wg = 0
        /\ \A i \in 1..Len(lines) : lines[i].st # "running"

C1_Witness ==
    /\ pc = "synced"
    /\ \E i \in 1..Len(lines) : lines[i].st = "settled"

C4_Original ==
    [][ /\ cur.isEnd => pc' # "recv"
        /\ (pc \notin PostLoop /\ pc' \in PostLoop)
              => (cur'.isEnd \/ displayErr' # "nil" \/ pc = "recv") ]_vars

(* C4 (amended): after a terminal event of a kind the loop handles (not an   *)
(* ignored kind) is dequeued, no later event is dequeued and the loop goes   *)
(* to cleanup once the event is handled; a terminal event of an ignored kind *)
(* is skipped and does not stop consumption. The loop is left only at a      *)
(* terminal event, after an error during handling, or when the stream is     *)
(* closed, and is never re-entered.                                          *)
C4_TerminalStops ==
    [][ /\ (cur.isEnd /\ cur.kind \notin IgnoredKinds) => pc' # "recv"
        /\ (pc = "check" /\ cur.isEnd) => pc' \in {"check", "cleanup"}
        /\ (pc = "switch" /\ cur.kind \in IgnoredKinds /\ pc' # pc) => pc' = "recv"
        /\ pc \in PostLoop => (pc' \in PostLoop /\ nDequeued' = nDequeued)
        /\ (pc \notin PostLoop /\ pc' \in PostLoop)
              => (cur'.isEnd \/ displayErr' # "nil" \/ pc = "recv") ]_vars

C4_Witness ==
    /\ pc = "cleanup"
    /\ cur.isEnd
    /\ displayErr = "nil"
    /\ nDequeued < MaxEvents

(* C5: if a render made while handling an event returned an error, no later  *)
(* event is dequeued and the error is pending as display error from the end  *)
(* of the handling on.                                                       *)
C5_RenderErrorStops ==
    [][ /\ iterErr => pc' # "recv"
        /\ (iterErr' /\ pc' \in {"check"} \cup PostLoop) => displayErr' # "nil" ]_vars

C7_CleanupOnce ==
    [][ /\ hideCalls' <= 1 /\ showCalls' <= 1 /\ cleanups' <= 1
        /\ (pc' # "start") => hideCalls' = 1
        /\ (pc' = "start") => (nDequeued' = 0 /\ lines' = <<>>)
        /\ cursorHidden' = (hideCalls' = 1 /\ showCalls' = 0)
        /\ (showCalls' = 1) => (cleanups' = 1 /\ lines'[Len(lines')] = BlankLine(0))
        /\ Cardinality({i \in 1..Len(lines') : lines'[i].ev = 0}) = cleanups'
        /\ (pc' \in PostLoop \ {"cleanup"}) => cleanups' = 1
        /\ (pc' \in Final) => (showCalls' = 1 /\ ~cursorHidden')
        /\ (showCalls = 1)
              => /\ nDequeued' = nDequeued
                 /\ Len(lines') = Len(lines)
                 /\ \A i \in 1..Len(lines) :
                       lines[i].owner = "loop" => lines'[i] = lines[i] ]_vars

C7_Witness ==
    /\ pc = "exited"
    /\ displayErr # "nil"
    /\ showCalls = 1
    /\ cleanups = 1
    /\ Len(lines) >= 3

C9_Original ==
    pc \in Final =>
        /\ displayErr # "nil" => (diag /\ pc = "exited" /\ exitCode > 0)
        /\ displayErr = "nil" => (~diag /\ pc = "returned")
        /\ (pc = "exited") = (exitCode > 0)

(* C9 (amended): at the end, a pending display error means the diagnostic    *)
(* was written and the process terminated with the display-failure code; no  *)
(* pending display error means no diagnostic, and the process is terminated  *)
(* with the exit code recorded from an error-detected event when that code   *)
(* is non-zero and returns normally otherwise; the process is terminated     *)
(* exactly when the exit code is non-zero.                                   *)
C9_ExitDecision ==
    pc \in Final =>
        /\ displayErr # "nil"
              => (diag /\ pc = "exited" /\ exitCode = DisplayErrExitCode /\ exitCode > 0)
        /\ displayErr = "nil"
              => /\ ~diag
                 /\ exitCode \in ExitCodes
                 /\ (pc = "exited") => errEvents > 0
        /\ (pc = "exited") = (exitCode > 0)
        /\ (pc = "returned") = (exitCode = 0)

C9_Witness ==
    /\ pc = "exited"
    /\ displayErr = "nil"
    /\ ~diag
    /\ exitCode = 2

(* C10: when a pres.Present call failed, a display error is pending at       *)
(* cleanup and the process exits with a non-zero code.                       *)
C10_PresenterErrorKept ==
    /\ (presentErr /\ pc \in {"check"} \cup PostLoop) => displayErr # "nil"
    /\ (presentErr /\ pc \in Final) => (pc = "exited" /\ exitCode > 0)

(* C11: a scan-finished or validate-with-violations event is handled by the *)
(* barrier wait, the title render, one pres.Present call and then a footer   *)
(* render exactly when the footer text is non-empty, in this order; title,   *)
(* present and footer occur for no other kind and never before the wait of   *)
(* their own event.                                                          *)
C11_PresenterOrder ==
    /\ pc = "present" => ops = <<"wait", "title">>
    /\ pc = "footer" => ops = <<"wait", "title", "present">>
    /\ (cur.kind \in FinishedKinds /\ pc \in {"check"} \cup PostLoop)
          => /\ ops = <<"wait", "title", "present">>
                         \o (IF cur.footer # "" THEN <<"footer">> ELSE <<>>)
             /\ Cardinality({i \in 1..Len(lines) : lines[i].ev = nDequeued})
                   = IF cur.footer # "" THEN 4 ELSE 3
    /\ (\E i \in 1..Len(ops) : ops[i] \in {"title", "present", "footer"})
          => (cur.kind \in FinishedKinds /\ ops[1] = "wait")

C11_Witness ==
    /\ pc = "check"
    /\ cur.kind \in FinishedKinds
    /\ cur.footer = ""
    /\ ops = <<"wait", "title", "present">>

(* C12: the loop waits on the WaitGroup only for the four synchronized       *)
(* kinds; an error-detected, version-available or delegated event is handled *)
(* whatever the WaitGroup counter, the error event's exit code is recorded   *)
(* with its render, and the loop can receive the next event while sub-tasks  *)
(* are running.                                                              *)
C12_WaitOnlySync ==
    /\ (\E i \in 1..Len(ops) : ops[i] = "wait") => cur.kind \in SyncKinds
    /\ (pc = "switch" /\ cur.kind \in ErrorKinds) => ENABLED HandleError
    /\ (pc = "switch" /\ cur.kind \in DirectKinds) => ENABLED HandleVersion
    /\ (pc = "switch" /\ cur.kind \in DelegatedKinds) => ENABLED HandleDelegated
    /\ (pc = "check" /\ cur.kind \in ErrorKinds)
          => (ops = <<"render">> /\ exitCode = cur.exitCode)
    /\ (pc = "recv" /\ nDequeued < MaxEvents) => ENABLED Recv

C12_Witness ==
    /\ pc = "check"
    /\ cur.kind \in ErrorKinds
    /\ wg > 0
    /\ exitCode = 74

(* C13 (as stated): under fair scheduling, once the stream has delivered a   *)
(* terminal event or is closed, DisplayEvents eventually finishes; every     *)
(* barrier wait returns.                                                     *)
C13_Original ==
    /\ (termSent \/ pc = "cleanup") ~> (pc \in Final)
    /\ (pc = "switch" /\ cur.kind \in SyncKinds) ~> (pc = "synced")

(* C13 (amended): under fair scheduling, once the stream has delivered a     *)
(* terminal event of a kind the loop handles (not an ignored kind) or is     *)
(* closed, DisplayEvents eventually finishes with the cleanup executed;      *)
(* every barrier wait returns; a wait made with no sub-task outstanding can  *)
(* return at once.                                                           *)
C13_Termination ==
    /\ ((pc = "switch" /\ cur.isEnd /\ cur.kind \notin IgnoredKinds) \/ pc = "cleanup")
          ~> (pc \in Final /\ cleanups = 1)
    /\ (pc = "switch" /\ cur.kind \in SyncKinds) ~> (pc = "synced")
    /\ [](( pc = "switch" /\ cur.kind \in SyncKinds /\ wg = 0) => ENABLED WgWait)

C13_Witness ==
    /\ pc = "returned"
    /\ cur.kind \in SyncKinds
    /\ cur.isEnd
    /\ Len(handed) >= 1
    /\ cleanups = 1

(* C14 (as stated): after a failed render on a non-terminal event that is    *)
(* not an error-detected event, the loop goes on to dequeue the next event.  *)
C14_Original ==
    [][ (pc = "check" /\ iterErr /\ cur.kind \notin ErrorKinds /\ ~cur.isEnd /\ pc' # pc)
           => pc' = "recv" ]_vars

(* C14 (amended): a failed render is recorded and never retried; when the    *)
(* failure is still the pending display error at the end of the event's      *)
(* handling the loop stops there, also on a non-terminal event that is not   *)
(* an error-detected event: it goes to cleanup and dequeues no later event.  *)
C14_RenderFailureStops ==
    [][ /\ (pc = "check" /\ displayErr # "nil" /\ pc' # pc) => pc' = "cleanup"
        /\ (pc' = "check" /\ pc # "check" /\ cur.kind \notin FinishedKinds)
              => (iterErr' = (displayErr' # "nil"))
        /\ \A i \in 1..Len(lines) :
              lines[i].st = "failed" => (Len(lines') >= i /\ lines'[i] = lines[i])
        /\ pc \in PostLoop => (pc' \in PostLoop /\ nDequeued' = nDequeued) ]_vars

C14_Witness ==
    /\ pc = "cleanup"
    /\ cur.kind \in DirectKinds
    /\ ~cur.isEnd
    /\ displayErr = "render"
    /\ nDequeued < MaxEvents

(* C15: the events dispatched are the first events of the stream, each once  *)
(* and in arrival order; the frame only grows, a line keeps its position,    *)
(* and the lines of an earlier event precede the lines of a later one (the   *)
(* blank line of the cleanup comes last).                                    *)
C15_ArrivalOrder ==
    [][ /\ handled' = [i \in 1..Len(handled') |-> i]
        /\ Len(handled') \in {nDequeued' - 1, nDequeued'}
        /\ Len(lines') >= Len(lines)
        /\ \A i \in 1..Len(lines) :
              lines'[i].ev = lines[i].ev /\ lines'[i].owner = lines[i].owner
        /\ \A i, j \in 1..Len(lines') :
              (i < j /\ lines'[j].ev # 0)
                 => (lines'[i].ev # 0 /\ lines'[i].ev <= lines'[j].ev) ]_vars

C15_Witness ==
    /\ pc = "recv"
    /\ handled = <<1, 2>>
    /\ Len(lines) >= 2
    /\ lines[1].ev = 1
    /\ lines[Len(lines)].ev = 2

(* C16: the loop renders only into lines it appended in the same step, each  *)
(* delegated event passes one freshly appended line to its handler, no line  *)
(* is passed to two handlers and the loop never renders into a line it       *)
(* passed to a handler.                                                      *)
C16_SingleWriter ==
    [][ /\ \A i, j \in 1..Len(handed') : i # j => handed'[i] # handed'[j]
        /\ \A i \in 1..Len(handed') :
              /\ handed'[i] \in 1..Len(lines')
              /\ handed'[i] \notin loopWrites'
              /\ lines'[handed'[i]].owner = "task"
        /\ \A k \in loopWrites' : k \in 1..Len(lines') /\ lines'[k].owner = "loop"
        /\ (loopWrites' \ loopWrites) \subseteq (Len(lines) + 1)..Len(lines')
        /\ \A i \in (Len(handed) + 1)..Len(handed') :
              handed'[i] \in (Len(lines) + 1)..Len(lines')
        /\ (pc = "switch" /\ cur.kind \in DelegatedKinds /\ pc' # pc)
              => (Len(handed') = Len(handed) + 1 /\ Len(lines') = Len(lines) + 1) ]_vars

C16_Witness ==
    /\ Len(handed) >= 2
    /\ wg = 2
    /\ loopWrites # {}

(* C17: whenever the loop is about to dequeue an event, or has just dequeued *)
(* one, no display error is pending.                                         *)
C17_NoErrorCarried ==
    pc \in {"recv", "switch", "synced"} => displayErr = "nil"

C17_Witness ==
    /\ pc = "switch"
    /\ nDequeued = 3
    /\ displayErr = "nil"
    /\ loopWrites # {}

(* C18: the final exit code is the display-failure code when a display error *)
(* is pending at cleanup, otherwise the exit code of the last error-detected *)
(* event handled (also when that is 0), otherwise 0.                         *)
C18_ExitCodeFunction ==
    pc \in Final =>
        FinalExitCode = IF displayErr # "nil" THEN DisplayErrExitCode
                        ELSE IF lastErr = -1 THEN 0
                        ELSE lastErr

C18_Witness ==
    /\ pc = "returned"
    /\ errEvents = 2
    /\ lastErr = 0
    /\ displayErr = "nil"
====
